---- MODULE Spec2Model ----
(***************************************************************************)
(* html_to_md: the Tree Builder (HTMLTreeBuilder.handle_starttag,          *)
(* handle_endtag, handle_data) and the Text / Table Extractors             *)
(* (extract_text, extract_table_text, html_to_text) as a state machine.    *)
(*                                                                         *)
(* A Python str is a sequence of one-character strings, so that strip,     *)
(* split, join and replace are computed character by character.  Element   *)
(* objects live in `heap`; an object's identity is its index, the          *)
(* synthetic root is object 1 and None is 0.                               *)
(***************************************************************************)
EXTENDS Integers, Sequences, FiniteSets, TLC

VARIABLES heap, current, tag_stack, raised, tokens

vars == <<heap, current, tag_stack, raised, tokens>>

\* ------------------------------------------------------------------ bounds
\* Tokens fed to the parser in one run of the tree-builder specification.
MaxTokens == 5

\* Tokens fed in one run of the conversion specifications.
MaxConvertTokens == 5

\* Tokens fed in one run of the heading and link specifications.
MaxFormatTokens == 5

\* Tokens fed in one run of the list specifications.
MaxListTokens == 6

\* Tokens fed in one run of the table specification.
MaxTableTokens == 8

\* ------------------------------------------------------------ Python str
\* str.strip() with no argument removes these from both ends.
Whitespace == {" ", "\t", "\n", "\r", "\f"}

NL == <<"\n">>

RECURSIVE lstrip(_, _)
lstrip(s, chars) ==
    IF s # <<>> /\ Head(s) \in chars THEN lstrip(Tail(s), chars) ELSE s

RECURSIVE rstrip(_, _)
rstrip(s, chars) ==
    IF s # <<>> /\ s[Len(s)] \in chars
    THEN rstrip(SubSeq(s, 1, Len(s) - 1), chars)
    ELSE s

\* s.strip(chars)
strip_chars(s, chars) == rstrip(lstrip(s, chars), chars)

\* s.strip()
strip(s) == strip_chars(s, Whitespace)

\* s.split("\n"): the pieces between newlines, always at least one piece.
RECURSIVE split_from(_, _, _)
split_from(s, i, piece) ==
    IF i > Len(s) THEN <<piece>>
    ELSE IF s[i] = "\n" THEN <<piece>> \o split_from(s, i + 1, <<>>)
    ELSE split_from(s, i + 1, Append(piece, s[i]))

split(s) == split_from(s, 1, <<>>)

\* sep.join(parts)
RECURSIVE join(_, _)
join(sep, parts) ==
    IF parts = <<>> THEN <<>>
    ELSE IF Len(parts) = 1 THEN parts[1]
    ELSE parts[1] \o sep \o join(sep, Tail(parts))

\* The replace leaving every '|' as it is.
replace_pipe_unescaped(s) == s

\* s.replace("|", "\\|")
RECURSIVE replace_pipe(_)
replace_pipe(s) ==
    IF s = <<>> THEN <<>>
    ELSE (IF Head(s) = "|" THEN <<"\\", "|">> ELSE <<Head(s)>>)
         \o replace_pipe(Tail(s))

\* str(n) for a natural number n, as f"{list_counter}" formats it.
Digit(d) == <<"0", "1", "2", "3", "4", "5", "6", "7", "8", "9">>[d + 1]

RECURSIVE str_int(_)
str_int(n) == IF n < 10 THEN <<Digit(n)>> ELSE Append(str_int(n \div 10), Digit(n % 10))

\* --------------------------------------------------------------- objects
None == 0

\* Element.attrs is a dict from attribute names to values; a value is a str
\* (the data model's mapping string -> string).  {} is the empty function.
NoAttrs == <<>>

\* {"href": value}
Href(value) == [href |-> value]

\* A child is an Element (by reference) or a str.
ElemChild(id) == [kind |-> "elem", id |-> id, data |-> <<>>]
TextChild(s) == [kind |-> "text", id |-> None, data |-> s]

\* Element.__init__ with the parent argument dropped.
Element_without_parent(tag, attrs, parent) ==
    [tag |-> tag, attrs |-> attrs, children |-> <<>>, parent |-> None]

\* Element.__init__
Element(tag, attrs, parent) ==
    [tag |-> tag, attrs |-> attrs, children |-> <<>>, parent |-> parent]

\* Element.add_child, on object `id` of heap h
add_child(h, id, child) == [h EXCEPT ![id].children = Append(@, child)]

\* The void set with one tag left out.
void_tags_without_br ==
    {"area", "base", "col", "embed", "hr", "img", "input",
     "link", "meta", "param", "source", "track", "wbr"}

void_tags == {"area", "base", "br", "col", "embed", "hr", "img", "input",
              "link", "meta", "param", "source", "track", "wbr"}

root == 1

\* ---------------------------------------------------------------- tokens
StartTag(tag, attrs) == [type |-> "start", tag |-> tag, attrs |-> attrs, data |-> <<>>]
EndTag(tag) == [type |-> "end", tag |-> tag, attrs |-> NoAttrs, data |-> <<>>]
Text(data) == [type |-> "data", tag |-> "", attrs |-> NoAttrs, data |-> data]

\* ----------------------------------------------------------- Tree Builder
\* HTMLTreeBuilder.__init__
Init ==
    /\ heap = <<Element("root", NoAttrs, None)>>
    /\ current = root
    /\ tag_stack = <<>>
    /\ raised = FALSE
    /\ tokens = <<>>

\* handle_starttag descending into every element, void ones too.
handle_starttag_descending(tag, attrs) ==
    LET element == Len(heap) + 1
    IN  /\ IF current = None
           THEN /\ raised' = TRUE
                /\ UNCHANGED <<heap, current, tag_stack>>
           ELSE /\ heap' = Append(add_child(heap, current, ElemChild(element)),
                                  Element(tag, attrs, current))
                /\ current' = element
                /\ tag_stack' = Append(tag_stack, tag)
                /\ raised' = raised
        /\ tokens' = Append(tokens, StartTag(tag, attrs))

\* Python raises AttributeError on None.add_child, None.tag and None.parent;
\* a handler that raises leaves the builder as it was and ends the feed.
handle_starttag(tag, attrs) ==
    LET element == Len(heap) + 1
        descend == tag \notin void_tags
    IN  /\ IF current = None
           THEN /\ raised' = TRUE
                /\ UNCHANGED <<heap, current, tag_stack>>
           ELSE /\ heap' = Append(add_child(heap, current, ElemChild(element)),
                                  Element(tag, attrs, current))
                /\ current' = IF descend THEN element ELSE current
                /\ tag_stack' = IF descend THEN Append(tag_stack, tag) ELSE tag_stack
                /\ raised' = raised
        /\ tokens' = Append(tokens, StartTag(tag, attrs))

\* pop leaving the list as it is.
pop_nothing(stack) == stack

\* self.tag_stack.pop(), called on a non-empty list only.
pop(stack) == SubSeq(stack, 1, Len(stack) - 1)

\* The while loop of handle_endtag never entered.
endtag_searching_never(cur, stack, tag) == FALSE

\* The guard of the while loop of handle_endtag.
endtag_searching(cur, stack, tag) ==
    stack # <<>> /\ heap[cur].tag # tag /\ heap[cur].parent # None

\* The final if of handle_endtag never taken.
endtag_matched_never(cur, stack, tag) == FALSE

\* The guard of the final if of handle_endtag.
endtag_matched(cur, stack, tag) ==
    stack # <<>> /\ heap[cur].tag = tag /\ heap[cur].parent # None

\* The while loop ascending without popping the stack.
RECURSIVE endtag_ascend_without_pop(_, _, _)
endtag_ascend_without_pop(cur, stack, tag) ==
    IF cur # None /\ endtag_searching(cur, stack, tag)
    THEN endtag_ascend_without_pop(heap[cur].parent, stack, tag)
    ELSE [current |-> cur, tag_stack |-> stack, raised |-> FALSE]

\* The while loop of handle_endtag, from (cur, stack): where it stops, or
\* that its guard raised.
RECURSIVE endtag_ascend(_, _, _)
endtag_ascend(cur, stack, tag) ==
    IF stack # <<>> /\ cur = None
    THEN [current |-> cur, tag_stack |-> stack, raised |-> TRUE]
    ELSE IF cur # None /\ endtag_searching(cur, stack, tag)
    THEN endtag_ascend(heap[cur].parent, pop(stack), tag)
    ELSE [current |-> cur, tag_stack |-> stack, raised |-> FALSE]

handle_endtag(tag) ==
    LET searched == endtag_ascend(current, tag_stack, tag)
        cur == searched.current
        stack == searched.tag_stack
        match == cur # None /\ endtag_matched(cur, stack, tag)
    IN  /\ heap' = heap
        /\ IF tag \in void_tags
           THEN UNCHANGED <<current, tag_stack, raised>>
           ELSE IF searched.raised
           THEN /\ raised' = TRUE
                /\ UNCHANGED <<current, tag_stack>>
           ELSE /\ current' = IF match THEN heap[cur].parent ELSE cur
                /\ tag_stack' = IF match THEN pop(stack) ELSE stack
                /\ raised' = raised
        /\ tokens' = Append(tokens, EndTag(tag))

\* handle_data without the `if data.strip()` test.
handle_data_unconditional(data) ==
    /\ heap' = add_child(heap, current, TextChild(strip(data)))
    /\ UNCHANGED <<current, tag_stack, raised>>
    /\ tokens' = Append(tokens, Text(data))

\* handle_data adding the data as it came, untrimmed.
handle_data_unstripped(data) ==
    /\ IF strip(data) = <<>>
       THEN UNCHANGED <<heap, raised>>
       ELSE IF current = None
       THEN /\ raised' = TRUE
            /\ heap' = heap
       ELSE /\ heap' = add_child(heap, current, TextChild(data))
            /\ raised' = raised
    /\ UNCHANGED <<current, tag_stack>>
    /\ tokens' = Append(tokens, Text(data))

handle_data(data) ==
    /\ IF strip(data) = <<>>
       THEN UNCHANGED <<heap, raised>>
       ELSE IF current = None
       THEN /\ raised' = TRUE
            /\ heap' = heap
       ELSE /\ heap' = add_child(heap, current, TextChild(strip(data)))
            /\ raised' = raised
    /\ UNCHANGED <<current, tag_stack>>
    /\ tokens' = Append(tokens, Text(data))

\* HTMLParser.feed as the builder sees it: one handler call per token, in
\* order, until the input ends or a handler raises.
more_input(max) == Len(tokens) < max /\ ~raised

feed(alphabet, max) ==
    \/ \E t \in {a \in alphabet : a.type = "start"} :
          more_input(max) /\ handle_starttag(t.tag, t.attrs)
    \/ \E t \in {a \in alphabet : a.type = "end"} :
          more_input(max) /\ handle_endtag(t.tag)
    \/ \E t \in {a \in alphabet : a.type = "data"} :
          more_input(max) /\ handle_data(t.data)

\* --------------------------------------- Text Extractor (HTMLTreeBuilder.py)
default_ignored_tags == {"script", "style", "meta", "link", "noscript"}

separated_tags == {"h1", "h2", "h3", "h4", "h5", "h6", "ul", "ol"}

transparent_tags == {"root", "html", "body", "head", "div"}

\* The str branch contributing nothing.
text_leaf_dropped(s) == <<>>

\* What a str child (or a str passed as the element) contributes.
text_leaf(s) == IF strip(s) # <<>> THEN strip(s) \o <<"\n", "\n">> ELSE <<>>

\* "".join(t for t in text if t)
RECURSIVE join_nonempty(_)
join_nonempty(text) ==
    IF text = <<>> THEN <<>>
    ELSE (IF Head(text) # <<>> THEN Head(text) ELSE <<>>) \o join_nonempty(Tail(text))

\* The `ul` loop prefixing every line, blank ones too.
RECURSIVE ul_lines_all_prefixed(_)
ul_lines_all_prefixed(lines) ==
    IF lines = <<>> THEN <<>>
    ELSE <<<<"-", " ">> \o Head(lines)>> \o ul_lines_all_prefixed(Tail(lines))

\* The loop of the `ul` branch over the lines from `lines` on.
RECURSIVE ul_lines(_)
ul_lines(lines) ==
    IF lines = <<>> THEN <<>>
    ELSE <<IF strip(Head(lines)) # <<>>
           THEN <<"-", " ">> \o Head(lines)
           ELSE Head(lines)>> \o ul_lines(Tail(lines))

\* The value list_counter is given before the loop of the `ol` branch.
ol_first == 1

\* The `ol` loop counting every line, blank ones too.
RECURSIVE ol_lines_counting_blank(_, _)
ol_lines_counting_blank(lines, list_counter) ==
    IF lines = <<>> THEN <<>>
    ELSE <<IF strip(Head(lines)) # <<>>
           THEN str_int(list_counter) \o <<".", " ">> \o Head(lines)
           ELSE Head(lines)>>
         \o ol_lines_counting_blank(Tail(lines), list_counter + 1)

\* The loop of the `ol` branch over the lines from `lines` on.
RECURSIVE ol_lines(_, _)
ol_lines(lines, list_counter) ==
    IF lines = <<>> THEN <<>>
    ELSE IF strip(Head(lines)) # <<>>
    THEN <<str_int(list_counter) \o <<".", " ">> \o Head(lines)>>
         \o ol_lines(Tail(lines), list_counter + 1)
    ELSE <<Head(lines)>> \o ol_lines(Tail(lines), list_counter)

\* element.attrs.get("href", "")
get_href(attrs) == IF "href" \in DOMAIN attrs THEN attrs["href"] ELSE <<>>

\* The `a` branch with the link text always taken from the href.
format_link_href_as_text(attrs, content) ==
    LET href == get_href(attrs)
    IN  <<"[">> \o href \o <<"]", "(">> \o href \o <<")">>

\* The `a` branch.
format_link(attrs, content) ==
    LET href == get_href(attrs)
        text_content == IF content # <<>> THEN content ELSE href
    IN  <<"[">> \o text_content \o <<"]", "(">> \o href \o <<")">>

\* The if/elif chain with the h3 branch pasted from h2.
format_tag_h3_as_h2(tag, attrs, content) ==
    CASE tag = "h1" -> <<"#", " ">> \o content
      [] tag = "h2" -> <<"#", "#", " ">> \o content
      [] tag = "h3" -> <<"#", "#", " ">> \o content
      [] tag = "h4" -> <<"#", "#", "#", "#", " ">> \o content
      [] tag = "h5" -> <<"#", "#", "#", "#", "#", " ">> \o content
      [] tag = "h6" -> <<"#", "#", "#", "#", "#", "#", " ">> \o content
      [] tag = "strong" -> <<"*", "*">> \o content \o <<"*", "*">>
      [] tag = "em" -> <<"*">> \o content \o <<"*">>
      [] tag = "a" -> format_link(attrs, content)
      [] tag = "ul" -> join(NL, ul_lines(split(content)))
      [] tag = "ol" -> join(NL, ol_lines(split(content), ol_first))
      [] OTHER -> content

\* The if/elif chain keyed by element.tag, applied to the joined content.
format_tag(tag, attrs, content) ==
    CASE tag = "h1" -> <<"#", " ">> \o content
      [] tag = "h2" -> <<"#", "#", " ">> \o content
      [] tag = "h3" -> <<"#", "#", "#", " ">> \o content
      [] tag = "h4" -> <<"#", "#", "#", "#", " ">> \o content
      [] tag = "h5" -> <<"#", "#", "#", "#", "#", " ">> \o content
      [] tag = "h6" -> <<"#", "#", "#", "#", "#", "#", " ">> \o content
      [] tag = "strong" -> <<"*", "*">> \o content \o <<"*", "*">>
      [] tag = "em" -> <<"*">> \o content \o <<"*">>
      [] tag = "a" -> format_link(attrs, content)
      [] tag = "ul" -> join(NL, ul_lines(split(content)))
      [] tag = "ol" -> join(NL, ol_lines(split(content), ol_first))
      [] OTHER -> content

\* Whether a tag is skipped with its whole subtree.
is_ignored(tag, ignored_tags) == tag \in ignored_tags

\* Whether the rows of a table come from a child with this tag.
is_row(tag) == tag = "tr"

RECURSIVE extract_text(_, _, _)
RECURSIVE extract_table_text(_, _, _)
RECURSIVE child_fragments(_, _, _, _)
RECURSIVE row_cells(_, _, _, _)
RECURSIVE table_rows(_, _, _, _)

\* The list `text` built by the loop over element.children, from the i-th
\* child on (i = 1 is enumerate's index 0).
child_fragments(h, kids, i, ignored_tags) ==
    IF i > Len(kids) THEN <<>>
    ELSE LET child == kids[i]
             rest == child_fragments(h, kids, i + 1, ignored_tags)
         IN  IF child.kind = "text"
             THEN <<text_leaf(child.data)>> \o rest
             ELSE LET child_text == extract_text(h, child, ignored_tags)
                      tag == h[child.id].tag
                  IN  IF child_text # <<>>
                      THEN (IF i > 1 THEN <<NL>> ELSE <<>>)
                           \o (IF tag \in separated_tags THEN <<NL>> ELSE <<>>)
                           \o (IF tag = "a" THEN <<NL>> ELSE <<>>)
                           \o <<strip(child_text)>>
                           \o rest
                      ELSE rest

\* content as joined and stripped, before the per-tag formatting.
joined_content(h, id, ignored_tags) ==
    strip(join_nonempty(child_fragments(h, h[id].children, 1, ignored_tags)))

\* extract_text(element, ignored_tags); element is a child: an Element or a str.
extract_text(h, element, ignored_tags) ==
    IF element.kind = "elem" /\ is_ignored(h[element.id].tag, ignored_tags) THEN <<>>
    ELSE IF element.kind = "elem" /\ h[element.id].tag = "table"
    THEN extract_table_text(h, element.id, ignored_tags)
    ELSE IF element.kind = "elem" /\ h[element.id].tag = "hr"
    THEN <<"-", "-", "-", "\n", "\n">>
    ELSE IF element.kind # "elem" THEN text_leaf(element.data)
    ELSE LET e == h[element.id]
             content == format_tag(e.tag, e.attrs,
                                   joined_content(h, element.id, ignored_tags))
         IN  IF content # <<>> /\ e.tag \notin transparent_tags
             THEN content \o <<"\n", "\n">>
             ELSE content

\* ------------------------------------- Table Extractor (HTMLTreeBuilder.py)
\* row_text of one tr: the non-empty th/td cells from the i-th child on.
row_cells(h, kids, i, ignored_tags) ==
    IF i > Len(kids) THEN <<>>
    ELSE LET cell == kids[i]
             rest == row_cells(h, kids, i + 1, ignored_tags)
         IN  IF cell.kind = "elem" /\ h[cell.id].tag \in {"th", "td"}
             THEN LET cell_text == strip(extract_text(h, cell, ignored_tags))
                  IN  IF cell_text # <<>>
                      THEN <<strip_chars(replace_pipe(cell_text), {"\n"})>> \o rest
                      ELSE rest
             ELSE rest

\* rows: the non-empty row_text of the tr children from the i-th child on.
table_rows(h, kids, i, ignored_tags) ==
    IF i > Len(kids) THEN <<>>
    ELSE LET child == kids[i]
             rest == table_rows(h, kids, i + 1, ignored_tags)
         IN  IF child.kind = "elem" /\ is_row(h[child.id].tag)
             THEN LET row_text == row_cells(h, h[child.id].children, 1, ignored_tags)
                  IN  IF row_text # <<>> THEN <<row_text>> \o rest ELSE rest
             ELSE rest

\* "| " + " | ".join(row) + " |"
pipe_row(row) == <<"|", " ">> \o join(<<" ", "|", " ">>, row) \o <<" ", "|">>

extract_table_text(h, table_elem, ignored_tags) ==
    LET rows == table_rows(h, h[table_elem].children, 1, ignored_tags)
        result == <<pipe_row(rows[1]),
                    pipe_row([k \in 1..Len(rows[1]) |-> <<"-", "-", "-">>])>>
                  \o [k \in 1..(Len(rows) - 1) |-> pipe_row(rows[k + 1])]
    IN  IF rows = <<>> THEN <<>>
        ELSE join(NL, result) \o <<"\n", "\n">>

\* ----------------------------------------------- Text Extractor (html2md.py)
html2md_unsuffixed_tags == {"root", "html", "body", "head", "div", "ul", "ol"}

RECURSIVE html2md_extract_text(_, _, _)
RECURSIVE html2md_extract_table_text(_, _, _)
RECURSIVE html2md_child_fragments(_, _, _, _)
RECURSIVE html2md_row_cells(_, _, _, _)
RECURSIVE html2md_table_rows(_, _, _, _)

\* The list `text` built by the loop over element.children.
html2md_child_fragments(h, kids, i, ignored_tags) ==
    IF i > Len(kids) THEN <<>>
    ELSE LET child == kids[i]
             rest == html2md_child_fragments(h, kids, i + 1, ignored_tags)
         IN  IF child.kind = "text"
             THEN <<text_leaf(child.data)>> \o rest
             ELSE LET child_text == html2md_extract_text(h, child, ignored_tags)
                  IN  IF child_text # <<>> THEN <<child_text>> \o rest ELSE rest

html2md_extract_text(h, element, ignored_tags) ==
    IF element.kind = "elem" /\ h[element.id].tag \in ignored_tags THEN <<>>
    ELSE IF element.kind = "elem" /\ h[element.id].tag = "table"
    THEN html2md_extract_table_text(h, element.id, ignored_tags)
    ELSE IF element.kind = "elem" /\ h[element.id].tag = "hr"
    THEN <<"-", "-", "-", "\n", "\n">>
    ELSE IF element.kind # "elem" THEN text_leaf(element.data)
    ELSE LET e == h[element.id]
             content == strip(join_nonempty(
                 html2md_child_fragments(h, e.children, 1, ignored_tags)))
         IN  IF content # <<>> /\ e.tag \notin html2md_unsuffixed_tags
             THEN content \o <<"\n", "\n">>
             ELSE content

html2md_row_cells(h, kids, i, ignored_tags) ==
    IF i > Len(kids) THEN <<>>
    ELSE LET cell == kids[i]
             rest == html2md_row_cells(h, kids, i + 1, ignored_tags)
         IN  IF cell.kind = "elem" /\ h[cell.id].tag \in {"th", "td"}
             THEN LET cell_text == strip(html2md_extract_text(h, cell, ignored_tags))
                  IN  IF cell_text # <<>>
                      THEN <<strip_chars(replace_pipe(cell_text), {"\n"})>> \o rest
                      ELSE rest
             ELSE rest

html2md_table_rows(h, kids, i, ignored_tags) ==
    IF i > Len(kids) THEN <<>>
    ELSE LET child == kids[i]
             rest == html2md_table_rows(h, kids, i + 1, ignored_tags)
         IN  IF child.kind = "elem" /\ h[child.id].tag = "tr"
             THEN LET row_text == html2md_row_cells(h, h[child.id].children, 1,
                                                    ignored_tags)
                  IN  IF row_text # <<>> THEN <<row_text>> \o rest ELSE rest
             ELSE rest

html2md_extract_table_text(h, table_elem, ignored_tags) ==
    LET rows == html2md_table_rows(h, h[table_elem].children, 1, ignored_tags)
        result == <<pipe_row(rows[1]),
                    pipe_row([k \in 1..Len(rows[1]) |-> <<"-", "-", "-">>])>>
                  \o [k \in 1..(Len(rows) - 1) |-> pipe_row(rows[k + 1])]
    IN  IF rows = <<>> THEN <<>>
        ELSE join(NL, result) \o <<"\n", "\n">>

\* The line filter keeping every line.
nonblank_lines_unfiltered(lines) == lines

\* line for line in text.split("\n") if line.strip()
RECURSIVE nonblank_lines(_)
nonblank_lines(lines) ==
    IF lines = <<>> THEN <<>>
    ELSE (IF strip(Head(lines)) # <<>> THEN <<Head(lines)>> ELSE <<>>)
         \o nonblank_lines(Tail(lines))

\* html_to_text once parser.feed(html) has built the tree h.
html2md_html_to_text(h) ==
    LET text == html2md_extract_text(h, ElemChild(root), default_ignored_tags)
    IN  IF text # <<>>
        THEN join(NL, nonblank_lines(split(text))) \o NL
        ELSE <<>>

\* ------------------------------------------ Text Extractor (grok_html2md.py)
grok_unsuffixed_tags == {"root", "html", "body", "head", "div", "ul", "ol"}

RECURSIVE grok_extract_text(_, _, _)
RECURSIVE grok_extract_table_text(_, _, _)
RECURSIVE grok_child_fragments(_, _, _, _)
RECURSIVE grok_row_cells(_, _, _, _)
RECURSIVE grok_table_rows(_, _, _, _)

\* The list `text` built by the loop over element.children.
grok_child_fragments(h, kids, i, ignored_tags) ==
    IF i > Len(kids) THEN <<>>
    ELSE LET child == kids[i]
             rest == grok_child_fragments(h, kids, i + 1, ignored_tags)
         IN  IF child.kind = "text"
             THEN <<text_leaf(child.data)>> \o rest
             ELSE LET child_text == grok_extract_text(h, child, ignored_tags)
                  IN  IF child_text # <<>> THEN <<child_text>> \o rest ELSE rest

grok_extract_text(h, element, ignored_tags) ==
    IF element.kind = "elem" /\ h[element.id].tag \in ignored_tags THEN <<>>
    ELSE IF element.kind = "elem" /\ h[element.id].tag = "table"
    THEN grok_extract_table_text(h, element.id, ignored_tags)
    ELSE IF element.kind = "elem" /\ h[element.id].tag = "hr"
    THEN <<"-", "-", "-", "\n", "\n">>
    ELSE IF element.kind # "elem" THEN text_leaf(element.data)
    ELSE LET e == h[element.id]
             content == strip(join_nonempty(
                 grok_child_fragments(h, e.children, 1, ignored_tags)))
         IN  IF content # <<>> /\ e.tag \notin grok_unsuffixed_tags
             THEN content \o <<"\n", "\n">>
             ELSE content

grok_row_cells(h, kids, i, ignored_tags) ==
    IF i > Len(kids) THEN <<>>
    ELSE LET cell == kids[i]
             rest == grok_row_cells(h, kids, i + 1, ignored_tags)
         IN  IF cell.kind = "elem" /\ h[cell.id].tag \in {"th", "td"}
             THEN LET cell_text == strip(grok_extract_text(h, cell, ignored_tags))
                  IN  IF cell_text # <<>>
                      THEN <<strip_chars(replace_pipe(cell_text), {"\n"})>> \o rest
                      ELSE rest
             ELSE rest

grok_table_rows(h, kids, i, ignored_tags) ==
    IF i > Len(kids) THEN <<>>
    ELSE LET child == kids[i]
             rest == grok_table_rows(h, kids, i + 1, ignored_tags)
         IN  IF child.kind = "elem" /\ h[child.id].tag = "tr"
             THEN LET row_text == grok_row_cells(h, h[child.id].children, 1,
                                                 ignored_tags)
                  IN  IF row_text # <<>> THEN <<row_text>> \o rest ELSE rest
             ELSE rest

grok_extract_table_text(h, table_elem, ignored_tags) ==
    LET rows == grok_table_rows(h, h[table_elem].children, 1, ignored_tags)
        result == <<pipe_row(rows[1]),
                    pipe_row([k \in 1..Len(rows[1]) |-> <<"-", "-", "-">>])>>
                  \o [k \in 1..(Len(rows) - 1) |-> pipe_row(rows[k + 1])]
    IN  IF rows = <<>> THEN <<>>
        ELSE join(NL, result) \o <<"\n", "\n">>

\* What a call gives its caller: a str, or an exception instead of a value.
Returned(text) == [raised |-> FALSE, text |-> text]
Raises == [raised |-> TRUE, text |-> <<>>]

\* get_tree of grok_html2md.py prints child.tag and child.children for every
\* child of the root before returning it: AttributeError when a child is a str.
grok_get_tree_raises(h) ==
    \E i \in 1..Len(h[root].children) : h[root].children[i].kind = "text"

\* html_to_text of grok_html2md.py once parser.feed(html) has built the tree h.
grok_html_to_text(h) ==
    LET text == grok_extract_text(h, ElemChild(root), default_ignored_tags)
    IN  IF grok_get_tree_raises(h) THEN Raises
        ELSE IF text # <<>>
        THEN Returned(join(NL, nonblank_lines(split(text))) \o NL)
        ELSE Returned(<<>>)

\* ------------------------------------------------------- token alphabets
\* Token alphabet of the tree-builder specification: two ordinary tags, a
\* void tag, an end tag that is never opened, and text that is plain,
\* padded or whitespace only.
BuilderTokens ==
    {StartTag("div", NoAttrs), StartTag("p", NoAttrs), StartTag("br", NoAttrs),
     EndTag("div"), EndTag("p"), EndTag("br"), EndTag("span"),
     Text(<<"x">>), Text(<<" ", "y", "\n">>), Text(<<" ", "\n">>)}

Next == feed(BuilderTokens, MaxTokens)

Spec == Init /\ [][Next]_vars

\* Conversion of balanced and unbalanced input: containers, a list, an
\* ignored tag, a table, end tags with and without an open element, and
\* text of one line and of several lines.
ConvertTokens ==
    {StartTag("div", NoAttrs), StartTag("p", NoAttrs), StartTag("ul", NoAttrs),
     StartTag("script", NoAttrs), StartTag("table", NoAttrs),
     EndTag("div"), EndTag("p"),
     Text(<<"t">>), Text(<<"a", "\n", "\n", "b">>)}

NextConvert == feed(ConvertTokens, MaxConvertTokens)

SpecConvert == Init /\ [][NextConvert]_vars

\* Extraction under a configured ignored-tag set: an ignored tag, a
\* container, and a table with a row and a cell.
IgnoreTokens ==
    {StartTag("div", NoAttrs), StartTag("script", NoAttrs),
     StartTag("table", NoAttrs), StartTag("tr", NoAttrs), StartTag("td", NoAttrs),
     EndTag("script"), EndTag("td"), EndTag("table"),
     Text(<<"x">>)}

NextIgnore == feed(IgnoreTokens, MaxConvertTokens)

SpecIgnore == Init /\ [][NextIgnore]_vars

\* Headings of every level, nested or closed, with text that is plain or
\* starts with '#'.
HeadingTokens ==
    {StartTag("h1", NoAttrs), StartTag("h2", NoAttrs), StartTag("h3", NoAttrs),
     StartTag("h4", NoAttrs), StartTag("h5", NoAttrs), StartTag("h6", NoAttrs),
     EndTag("h3"), Text(<<"x">>), Text(<<"#", "y">>)}

NextHeading == feed(HeadingTokens, MaxFormatTokens)

SpecHeading == Init /\ [][NextHeading]_vars

\* Unordered lists: items closed or not, nested lists, text of one line
\* and of two lines.
UlTokens ==
    {StartTag("ul", NoAttrs), StartTag("li", NoAttrs), EndTag("li"),
     Text(<<"a">>), Text(<<"c">>), Text(<<"b", "\n", "d">>)}

NextUl == feed(UlTokens, MaxListTokens)

SpecUl == Init /\ [][NextUl]_vars

\* Ordered lists: sibling and nested lists, items, text of one line and of
\* two lines.
OlTokens ==
    {StartTag("ol", NoAttrs), StartTag("li", NoAttrs), EndTag("li"), EndTag("ol"),
     Text(<<"a">>), Text(<<"b", "\n", "d">>)}

NextOl == feed(OlTokens, MaxListTokens)

SpecOl == Init /\ [][NextOl]_vars

\* Links: href absent, empty and non-empty; with and without content;
\* nested in a container or in another link.
LinkTokens ==
    {StartTag("a", NoAttrs), StartTag("a", Href(<<>>)), StartTag("a", Href(<<"u">>)),
     StartTag("div", NoAttrs), EndTag("a"), Text(<<"x">>)}

NextLink == feed(LinkTokens, MaxFormatTokens)

SpecLink == Init /\ [][NextLink]_vars

\* Text handling: text that is empty, whitespace only, plain, padded and
\* with inner whitespace, at the root, inside an element, after a void tag
\* and after an element was closed.
DataTokens ==
    {StartTag("div", NoAttrs), StartTag("br", NoAttrs), EndTag("div"),
     Text(<<>>), Text(<<" ", "\n">>), Text(<<"x">>), Text(<<" ", "y", "\n">>),
     Text(<<"a", " ", "b">>)}

NextData == feed(DataTokens, MaxTokens)

SpecData == Init /\ [][NextData]_vars

\* Top-level conversion: containers, paragraphs, a table, text of one line,
\* text with padding and a whitespace-only inner line, whitespace-only text.
OutputTokens ==
    {StartTag("div", NoAttrs), StartTag("p", NoAttrs), StartTag("table", NoAttrs),
     StartTag("tr", NoAttrs), StartTag("td", NoAttrs), EndTag("p"),
     Text(<<"x">>), Text(<<" ", "a", "\n", " ", "\n", "b", "\n">>),
     Text(<<" ", "\n">>)}

NextOutput == feed(OutputTokens, MaxConvertTokens)

SpecOutput == Init /\ [][NextOutput]_vars

\* Tables: rows closed or not, header cells closed or not, several cells in
\* a row, several rows, text with and without '|', several texts in a cell.
TableTokens ==
    {StartTag("table", NoAttrs), StartTag("tr", NoAttrs), StartTag("th", NoAttrs),
     EndTag("tr"), EndTag("th"), Text(<<"a", "|", "b">>), Text(<<"x">>)}

NextTable == feed(TableTokens, MaxTableTokens)

SpecTable == Init /\ [][NextTable]_vars

\* ======================================================= claims: helpers
Max(a, b) == IF a >= b THEN a ELSE b

Last(seq) == seq[Len(seq)]

Elements == 1..Len(heap)

\* The void set as the specification enumerates it.
SpecVoidTags == {"area", "base", "br", "col", "embed", "hr", "img", "input",
                 "link", "meta", "param", "source", "track", "wbr"}

\* The places (parent, position) where Element e occurs as a child in h.
Occurrences(h, e) ==
    {pi \in UNION {{<<p, i>> : i \in 1..Len(h[p].children)} : p \in 1..Len(h)} :
        LET c == h[pi[1]].children[pi[2]] IN c.kind = "elem" /\ c.id = e}

\* Following parent references from e reaches the root within `fuel` steps.
RECURSIVE ReachesRoot(_, _, _)
ReachesRoot(h, e, fuel) ==
    \/ e = root
    \/ /\ fuel > 0
       /\ e \in 1..Len(h)
       /\ h[e].parent \in 1..Len(h)
       /\ ReachesRoot(h, h[e].parent, fuel - 1)

\* Number of parent references between e and the root.
RECURSIVE Depth(_, _)
Depth(h, e) == IF h[e].parent = None THEN 0 ELSE 1 + Depth(h, h[e].parent)

\* e and the Elements above it.
RECURSIVE AncestorsOrSelf(_, _)
AncestorsOrSelf(h, e) ==
    IF e = None THEN {} ELSE {e} \cup AncestorsOrSelf(h, h[e].parent)

IsPrefix(s, t) == Len(s) <= Len(t) /\ s = SubSeq(t, 1, Len(s))

\* ------------------------------------------------------------------- C1
\* C1: whatever tokens were fed, no handler raised and the structure is a
\* tree rooted at the synthetic root: the root has no parent and is nobody's
\* child, every other Element has a parent, occurs exactly once among all
\* children sequences, and that once in its parent's, and its parent
\* references lead to the root; every child reference is to an Element that
\* exists.
C1_WellFormedTree ==
    /\ ~raised
    /\ current \in Elements
    /\ heap[root].parent = None
    /\ Occurrences(heap, root) = {}
    /\ \A e \in Elements \ {root} :
          /\ heap[e].parent \in Elements
          /\ Cardinality(Occurrences(heap, e)) = 1
          /\ \A pi \in Occurrences(heap, e) : pi[1] = heap[e].parent
          /\ ReachesRoot(heap, e, Len(heap))
    /\ \A p \in Elements : \A i \in 1..Len(heap[p].children) :
          heap[p].children[i].kind = "elem" =>
              heap[p].children[i].id \in Elements \ {root}

\* An unbalanced input was processed: an end tag nobody opened, and an
\* element nested in another that is still open at the end.
C1_Witness ==
    /\ \E i \in 1..Len(tokens) : tokens[i] = EndTag("span")
    /\ Len(tag_stack) >= 2
    /\ Len(heap) >= 3

\* ------------------------------------------------------------------- C2
\* The scan of a token sequence for proper nesting: `open` are the non-void
\* start tags not yet closed, `depth` the deepest nesting of a start tag so
\* far.  A non-void end tag must close the innermost open tag; a void end
\* tag must directly follow its own start tag.
RECURSIVE NestingScan(_, _, _, _)
NestingScan(toks, i, open, depth) ==
    IF i > Len(toks) THEN [ok |-> TRUE, open |-> open, depth |-> depth]
    ELSE LET t == toks[i] IN
         IF t.type = "data" THEN NestingScan(toks, i + 1, open, depth)
         ELSE IF t.type = "start"
         THEN NestingScan(toks, i + 1,
                          IF t.tag \in SpecVoidTags THEN open ELSE Append(open, t.tag),
                          Max(depth, Len(open) + 1))
         ELSE IF t.tag \in SpecVoidTags
         THEN IF i > 1 /\ toks[i - 1].type = "start" /\ toks[i - 1].tag = t.tag
              THEN NestingScan(toks, i + 1, open, depth)
              ELSE [ok |-> FALSE, open |-> open, depth |-> depth]
         ELSE IF open # <<>> /\ Last(open) = t.tag
         THEN NestingScan(toks, i + 1, SubSeq(open, 1, Len(open) - 1), depth)
         ELSE [ok |-> FALSE, open |-> open, depth |-> depth]

Nesting(toks) == NestingScan(toks, 1, <<>>, 0)

Balanced(toks) == Nesting(toks).ok /\ Nesting(toks).open = <<>>

StartCount(toks) == Cardinality({i \in 1..Len(toks) : toks[i].type = "start"})

\* Text tokens with a character that is not whitespace.
TextCount(toks) ==
    Cardinality({i \in 1..Len(toks) :
        toks[i].type = "data" /\ \E k \in 1..Len(toks[i].data) :
            toks[i].data[k] \notin Whitespace})

\* Elements other than the root, plus text leaves.
NodeCount(h) ==
    (Len(h) - 1)
    + Cardinality({pi \in UNION {{<<p, i>> : i \in 1..Len(h[p].children)} : p \in 1..Len(h)} :
                      h[pi[1]].children[pi[2]].kind = "text"})

\* The deepest Element (the root is at depth 0; a text leaf adds no level).
RECURSIVE MaxDepth(_, _)
MaxDepth(h, e) == IF e > Len(h) THEN 0 ELSE Max(Depth(h, e), MaxDepth(h, e + 1))

TreeDepth(h) == MaxDepth(h, 1)

\* C2: after a properly balanced token sequence the tree has as many nodes
\* (the root not counted) as there were start tags plus text tokens that
\* are not blank, and its deepest Element is as deep as the deepest nesting
\* of a start tag in the input.
C2_BalancedCounts ==
    Balanced(tokens) =>
        /\ NodeCount(heap) = StartCount(tokens) + TextCount(tokens)
        /\ TreeDepth(heap) = Nesting(tokens).depth

\* A balanced input with two nesting levels, both closed, and text.
C2_Witness ==
    /\ Balanced(tokens)
    /\ Nesting(tokens).depth >= 2
    /\ TextCount(tokens) >= 1
    /\ Cardinality({i \in 1..Len(tokens) : tokens[i].type = "end"}) >= 2

\* ------------------------------------------------------------------- C3
\* What holds of void Elements in a state.
C3_VoidState ==
    /\ \A e \in Elements : heap[e].tag \in SpecVoidTags =>
          heap[e].children = <<>> /\ current # e
    /\ \A i \in 1..Len(tag_stack) : tag_stack[i] \notin SpecVoidTags

\* What a step that feeds a void EndTag changes: the input position only.
C3_VoidEndTagStep ==
    \A t \in SpecVoidTags :
        tokens' = Append(tokens, EndTag(t)) =>
            heap' = heap /\ current' = current /\ tag_stack' = tag_stack

\* C3: an Element with a void tag never has children, is never `current`
\* and its tag is never on the stack; a step that feeds EndTag of a void
\* tag leaves the tree, `current` and the stack as they were, also right
\* after the void StartTag.
C3_VoidTags == [](C3_VoidState) /\ [][C3_VoidEndTagStep]_vars

\* <br> inside an open element, directly followed by </br>, then more text.
C3_Witness ==
    /\ Len(tokens) >= 4
    /\ tokens[2] = StartTag("br", NoAttrs)
    /\ tokens[3] = EndTag("br")
    /\ tokens[1].type = "start" /\ tokens[4].type = "data"
    /\ Len(heap[2].children) = 2

\* ------------------------------------------------------------------- C4
\* The tags of the Elements on the path from e up to and including the root.
OpenTags(h, e) == {h[a].tag : a \in AncestorsOrSelf(h, e)}

\* What a step that feeds an unmatched EndTag may change.
C4_UnmatchedEndTagStep ==
    \A t \in {a.tag : a \in {b \in BuilderTokens : b.type = "end"}} :
        (tokens' = Append(tokens, EndTag(t)) /\ t \notin OpenTags(heap, current)) =>
            /\ ~raised'
            /\ heap' = heap
            /\ current' \in AncestorsOrSelf(heap, current)
            /\ IsPrefix(tag_stack', tag_stack)
            /\ Len(tag_stack) - Len(tag_stack')
                 = Depth(heap, current) - Depth(heap, current')

\* C4: a step that feeds an EndTag whose name no Element from `current` up
\* to the root carries does not raise and leaves every Element, every
\* children sequence and every parent reference as it was; `current` ends
\* on itself or one of its ancestors, and the stack loses exactly as many
\* entries, from its top, as levels were ascended.
C4_UnmatchedEndTag == [][C4_UnmatchedEndTagStep]_vars

\* </span> arrived two levels deep with nothing matching: `current` is back
\* at the root and the tree still holds both elements.
C4_Witness ==
    /\ Len(tokens) = 3
    /\ tokens[3] = EndTag("span")
    /\ tokens[1].type = "start" /\ tokens[2].type = "start"
    /\ heap[3].parent = 2
    /\ current = root
    /\ tag_stack = <<>>

\* ------------------------------------------------------------------- C5
\* sub occurs in s as a contiguous run of characters.
Substring(sub, s) ==
    \E i \in 1..(Len(s) - Len(sub) + 1) : SubSeq(s, i, i + Len(sub) - 1) = sub

\* The text leaves of h, as (parent, position).
Leaves(h) ==
    {pi \in UNION {{<<p, i>> : i \in 1..Len(h[p].children)} : p \in 1..Len(h)} :
        h[pi[1]].children[pi[2]].kind = "text"}

LeafText(h, pi) == h[pi[1]].children[pi[2]].data

\* A leaf the conversion is not expected to surface: some Element above it
\* is ignored by default or is a table.
Hidden(h, pi) ==
    \E a \in AncestorsOrSelf(h, pi[1]) :
        h[a].tag \in {"script", "style", "meta", "link", "noscript", "table"}

\* The two conversions of the tree built so far.
ConvertedByTreeBuilder == extract_text(heap, ElemChild(root), default_ignored_tags)

ConvertedByHtml2md == html2md_html_to_text(heap)

\* C5 as claimed: whatever was fed, nothing raised and every text leaf that
\* is not under an ignored tag or a table occurs, whole, in the output of
\* extract_text (HTMLTreeBuilder.py) and of html_to_text (html2md.py).
C5_WholeTextSurfaces ==
    /\ ~raised
    /\ \A pi \in Leaves(heap) : ~Hidden(heap, pi) =>
          /\ Substring(LeafText(heap, pi), ConvertedByTreeBuilder)
          /\ Substring(LeafText(heap, pi), ConvertedByHtml2md)

\* C5 as amended: whatever was fed, balanced or not, nothing raised and every
\* non-blank line of every text leaf that is not under an ignored tag or a
\* table occurs in both outputs (so a text of one line occurs whole), also
\* for text in elements that were never closed.
C5_TextLinesSurface ==
    /\ ~raised
    /\ \A pi \in Leaves(heap) : ~Hidden(heap, pi) =>
          \A k \in 1..Len(split(LeafText(heap, pi))) :
              LET line == split(LeafText(heap, pi))[k]
              IN  strip(line) # <<>> =>
                    /\ Substring(line, ConvertedByTreeBuilder)
                    /\ Substring(line, ConvertedByHtml2md)

\* A text of several lines sits in a list that was never closed, next to a
\* table whose text is hidden.
C5_Witness ==
    /\ tag_stack # <<>>
    /\ \E pi \in Leaves(heap) :
          /\ ~Hidden(heap, pi)
          /\ heap[pi[1]].tag = "ul"
          /\ Len(split(LeafText(heap, pi))) > 1
    /\ \E pi \in Leaves(heap) : Hidden(heap, pi)

\* ------------------------------------------------------------------- C6
\* The children of a sequence that are not Elements with a tag in S.
RECURSIVE KeptChildren(_, _, _)
KeptChildren(h, kids, S) ==
    IF kids = <<>> THEN <<>>
    ELSE (IF Head(kids).kind = "elem" /\ h[Head(kids).id].tag \in S
          THEN <<>> ELSE <<Head(kids)>>)
         \o KeptChildren(h, Tail(kids), S)

\* The tree with every Element whose tag is in S deleted, subtree included.
Pruned(h, S) ==
    [e \in 1..Len(h) |-> [h[e] EXCEPT !.children = KeptChildren(h, @, S)]]

\* The ignored-tag sets configured: the default, and sets naming a
\* container, a table, a cell and a row.
IgnoredSets ==
    {default_ignored_tags, {"div"}, {"table"}, {"td"}, {"tr"}, {"script", "td"}}

IgnoredVanishes(S) ==
    extract_text(heap, ElemChild(root), S)
        = extract_text(Pruned(heap, S), ElemChild(root), S)

\* C6: for every configured ignored-tag set S, extracting the tree gives the
\* same string as extracting the tree with every Element whose tag is in S
\* deleted together with its subtree, wherever the Element sits.
C6_IgnoredSubtreesVanish == \A S \in IgnoredSets : IgnoredVanishes(S)

\* The same for the sets that do not name the row tag, which
\* extract_table_text tests without consulting ignored_tags.
C6_VanishUnlessRow == \A S \in IgnoredSets : "tr" \notin S => IgnoredVanishes(S)

\* ------------------------------------------------------------------- C7
\* The level the tag name of a heading carries.
HeadingLevel(tag) ==
    CASE tag = "h1" -> 1 [] tag = "h2" -> 2 [] tag = "h3" -> 3
      [] tag = "h4" -> 4 [] tag = "h5" -> 5 [] tag = "h6" -> 6

Headings(h) == {e \in 1..Len(h) : h[e].tag \in {"h1", "h2", "h3", "h4", "h5", "h6"}}

\* s starts with exactly n '#' and then exactly one space.
StartsWithMarks(s, n) ==
    /\ Len(s) >= n + 1
    /\ \A k \in 1..n : s[k] = "#"
    /\ s[n + 1] = " "
    /\ Len(s) >= n + 2 => s[n + 2] # " "

\* C7: for every h1..h6 Element of level N, whatever its children, the
\* string extract_text returns for that Element starts with exactly N '#'
\* characters followed by one space.
C7_HeadingPrefix ==
    \A e \in Headings(heap) :
        StartsWithMarks(extract_text(heap, ElemChild(e), default_ignored_tags),
                        HeadingLevel(heap[e].tag))

\* A heading without children, a heading nested in a heading of another
\* level, and a heading whose text starts with '#'.
C7_Witness ==
    /\ \E e \in Headings(heap) : heap[e].children = <<>>
    /\ \E e \in Headings(heap) :
          /\ heap[e].parent \in Headings(heap)
          /\ heap[e].tag # heap[heap[e].parent].tag
          /\ heap[e].tag = "h3"
    /\ \E e \in Headings(heap) : \E i \in 1..Len(heap[e].children) :
          heap[e].children[i] = TextChild(<<"#", "y">>)

\* ------------------------------------------------------------------- C8
Blank(line) == \A k \in 1..Len(line) : line[k] \in Whitespace

ElementsTagged(h, tag) == {e \in 1..Len(h) : h[e].tag = tag}

\* out is the lines `expected`, one for each line of `content`, then the
\* trailing blank line; nothing at all when content is empty.
ListOutput(out, content, expected) ==
    IF content = <<>> THEN out = <<>>
    ELSE /\ Len(out) >= 2
         /\ SubSeq(out, Len(out) - 1, Len(out)) = <<"\n", "\n">>
         /\ LET got == split(SubSeq(out, 1, Len(out) - 2))
            IN  /\ Len(got) = Len(expected)
                /\ \A i \in 1..Len(expected) : got[i] = expected[i]

\* Each line of content, prefixed with '- ' unless it is blank.
UlPrefixed(content) ==
    LET lines == split(content)
    IN  [i \in 1..Len(lines) |->
            IF Blank(lines[i]) THEN lines[i] ELSE <<"-", " ">> \o lines[i]]

\* The children of e are all li Elements, each holding exactly one text of
\* one line.
SimpleItems(h, e) ==
    /\ h[e].children # <<>>
    /\ \A i \in 1..Len(h[e].children) :
          LET c == h[e].children[i] IN
          /\ c.kind = "elem"
          /\ h[c.id].tag = "li"
          /\ Len(h[c.id].children) = 1
          /\ h[c.id].children[1].kind = "text"
          /\ "\n" \notin {h[c.id].children[1].data[k] :
                            k \in 1..Len(h[c.id].children[1].data)}

\* '- t1' newline ... newline '- tn', then the trailing blank line.
RECURSIVE ItemLines(_, _, _)
ItemLines(h, kids, i) ==
    IF i > Len(kids) THEN <<"\n">>
    ELSE <<"-", " ">> \o h[kids[i].id].children[1].data \o <<"\n">>
         \o ItemLines(h, kids, i + 1)

\* C8: the output of every ul Element is its joined content line by line,
\* in order, each non-blank line prefixed with '- ' and each blank line as
\* it is (then the trailing blank line); a ul of n li children holding one
\* one-line text each yields exactly '- t1' ... '- tn' in document order.
C8_UlLines ==
    \A e \in ElementsTagged(heap, "ul") :
        LET out == extract_text(heap, ElemChild(e), default_ignored_tags)
            content == joined_content(heap, e, default_ignored_tags)
        IN  /\ ListOutput(out, content, UlPrefixed(content))
            /\ SimpleItems(heap, e) => out = ItemLines(heap, heap[e].children, 1)

\* <ul><li>a</li><li>c</li></ul>-like input: two closed-off items with
\* different one-line texts.
C8_Witness ==
    \E e \in ElementsTagged(heap, "ul") :
        /\ SimpleItems(heap, e)
        /\ Len(heap[e].children) = 2
        /\ heap[heap[e].children[1].id].children[1].data = <<"a">>
        /\ heap[heap[e].children[2].id].children[1].data = <<"c">>

\* A ul whose content has blank lines between non-blank ones.
C8_WitnessBlankLines ==
    \E e \in ElementsTagged(heap, "ul") :
        \E i \in 1..Len(split(joined_content(heap, e, default_ignored_tags))) :
            /\ i > 1
            /\ Blank(split(joined_content(heap, e, default_ignored_tags))[i])

\* ------------------------------------------------------------------- C9
\* How many of the first i lines are non-blank.
Rank(lines, i) == Cardinality({k \in 1..i : ~Blank(lines[k])})

\* Each line of content, its k-th non-blank line prefixed with 'k. '.
OlPrefixed(content) ==
    LET lines == split(content)
    IN  [i \in 1..Len(lines) |->
            IF Blank(lines[i]) THEN lines[i]
            ELSE str_int(Rank(lines, i)) \o <<".", " ">> \o lines[i]]

\* C9: in the output of every ol Element the k-th non-blank line of its
\* joined content is prefixed with 'k. ', k counting from 1 within that ol,
\* whatever ol elements came before it, enclose it or are nested in it;
\* blank lines are kept as they are.
C9_OlNumbering ==
    \A e \in ElementsTagged(heap, "ol") :
        LET content == joined_content(heap, e, default_ignored_tags)
        IN  ListOutput(extract_text(heap, ElemChild(e), default_ignored_tags),
                       content, OlPrefixed(content))

NonBlankLines(content) ==
    Cardinality({k \in 1..Len(split(content)) : ~Blank(split(content)[k])})

\* Two ol Elements with text, the earlier one with two numbered lines or
\* more: once as siblings, once nested.
C9_Witness ==
    \E e1, e2 \in ElementsTagged(heap, "ol") :
        /\ e1 < e2
        /\ heap[e2].parent = heap[e1].parent
        /\ NonBlankLines(joined_content(heap, e1, default_ignored_tags)) >= 2
        /\ NonBlankLines(joined_content(heap, e2, default_ignored_tags)) >= 1

C9_WitnessNested ==
    \E e1, e2 \in ElementsTagged(heap, "ol") :
        /\ e1 \in AncestorsOrSelf(heap, heap[e2].parent)
        /\ NonBlankLines(joined_content(heap, e2, default_ignored_tags)) >= 1
        /\ NonBlankLines(joined_content(heap, e1, default_ignored_tags)) >= 3

\* ------------------------------------------------------------------ C10
\* The href of an Element: its attribute, or the empty string without one.
HrefOf(h, e) == IF "href" \in DOMAIN h[e].attrs THEN h[e].attrs.href ELSE <<>>

\* C10: every `a` Element yields '[text](href)' and the trailing blank
\* line, href being its href attribute or empty when it has none, text its
\* joined child content when that is non-empty and the href otherwise.
C10_Link ==
    \A e \in ElementsTagged(heap, "a") :
        LET content == joined_content(heap, e, default_ignored_tags)
            text == IF content # <<>> THEN content ELSE HrefOf(heap, e)
        IN  extract_text(heap, ElemChild(e), default_ignored_tags)
              = <<"[">> \o text \o <<"]", "(">> \o HrefOf(heap, e)
                \o <<")", "\n", "\n">>

\* A link with href and content, one with href and no content, and one
\* with neither.
C10_Witness ==
    /\ \E e \in ElementsTagged(heap, "a") :
          HrefOf(heap, e) = <<"u">> /\ heap[e].children # <<>>
    /\ \E e \in ElementsTagged(heap, "a") :
          HrefOf(heap, e) = <<"u">> /\ heap[e].children = <<>>
    /\ \E e \in ElementsTagged(heap, "a") :
          "href" \notin DOMAIN heap[e].attrs /\ heap[e].children = <<>>

\* ------------------------------------------------------------------ C11
\* Whether a child is a table cell.
IsCell(h, c) == c.kind = "elem" /\ h[c.id].tag \in {"th", "td"}

\* The trimmed text the Text Extractor gives for a cell.
CellText(h, c) == strip(extract_text(h, c, default_ignored_tags))

\* s with a backslash put before every '|'.
Escaped(s) ==
    join(<<>>, [k \in 1..Len(s) |-> IF s[k] = "|" THEN <<"\\", "|">> ELSE <<s[k]>>])

\* The cells a row keeps: its th/td children with non-empty text, escaped.
KeptCells(h, r) ==
    LET cells == SelectSeq(h[r].children,
                           LAMBDA c : IsCell(h, c) /\ CellText(h, c) # <<>>)
    IN  [k \in 1..Len(cells) |-> Escaped(CellText(h, cells[k]))]

\* The rows a table keeps: its tr children keeping at least one cell.
KeptRows(h, t) ==
    LET trs == SelectSeq(h[t].children,
                         LAMBDA c : /\ c.kind = "elem"
                                    /\ h[c.id].tag = "tr"
                                    /\ KeptCells(h, c.id) # <<>>)
    IN  [k \in 1..Len(trs) |-> KeptCells(h, trs[k].id)]

\* '|' then ' c |' for each cell.
RECURSIVE PipeCells(_)
PipeCells(cells) ==
    IF cells = <<>> THEN <<>>
    ELSE <<" ">> \o Head(cells) \o <<" ", "|">> \o PipeCells(Tail(cells))

PipeLine(cells) == <<"|">> \o PipeCells(cells)

\* Each line followed by a newline.
RECURSIVE LinesEnded(_)
LinesEnded(lines) ==
    IF lines = <<>> THEN <<>>
    ELSE Head(lines) \o <<"\n">> \o LinesEnded(Tail(lines))

\* The Markdown block of the kept rows: header, separator with one '---'
\* per header cell, the remaining rows in order, then the blank line.
TableBlock(rows) ==
    LinesEnded(<<PipeLine(rows[1]),
                 PipeLine([k \in 1..Len(rows[1]) |-> <<"-", "-", "-">>])>>
               \o [k \in 1..(Len(rows) - 1) |-> PipeLine(rows[k + 1])])
    \o <<"\n">>

\* C11: for every table Element the Table Extractor returns the empty
\* string when no row is kept, and otherwise the header '| c1 | ... | cn |'
\* of the first kept row, the separator with exactly one '---' per header
\* cell, one pipe-delimited line per remaining kept row in document order,
\* each ended by one newline, and a final blank line; every '|' of a
\* cell's text comes out as '\|'.
C11_TableBlock ==
    \A t \in ElementsTagged(heap, "table") :
        LET rows == KeptRows(heap, t)
            out == extract_text(heap, ElemChild(t), default_ignored_tags)
        IN  IF rows = <<>> THEN out = <<>> ELSE out = TableBlock(rows)

\* A table of two kept rows with different texts, one of them with '|'.
C11_Witness ==
    \E t \in ElementsTagged(heap, "table") :
        /\ Len(KeptRows(heap, t)) = 2
        /\ KeptRows(heap, t)[1] = <<<<"a", "\\", "|", "b">>>>
        /\ KeptRows(heap, t)[2] = <<<<"x">>>>

\* A header of two cells with different texts.
C11_WitnessCells ==
    \E t \in ElementsTagged(heap, "table") :
        /\ Len(KeptRows(heap, t)) = 1
        /\ KeptRows(heap, t)[1] = <<<<"x">>, <<"a", "\\", "|", "b">>>>

\* A table whose rows keep nothing: a row without cells and a cell
\* without text.
C11_WitnessEmpty ==
    \E t \in ElementsTagged(heap, "table") :
        /\ KeptRows(heap, t) = <<>>
        /\ Cardinality({e \in ElementsTagged(heap, "tr") : heap[e].parent = t}) >= 2
        /\ \E e \in ElementsTagged(heap, "th") : heap[heap[e].parent].parent = t

\* ------------------------------------------------------------------ C12
\* A table whose children are all tr Elements with only th/td Elements as
\* children.
WellFormedTable(h, t) ==
    \A i \in 1..Len(h[t].children) :
        LET r == h[t].children[i] IN
        /\ r.kind = "elem"
        /\ h[r.id].tag = "tr"
        /\ \A j \in 1..Len(h[r.id].children) : IsCell(h, h[r.id].children[j])

\* The tr children of t with at least one th/td of non-empty text.
RowsWithText(h, t) ==
    {i \in 1..Len(h[t].children) :
        LET r == h[t].children[i] IN
        /\ r.kind = "elem"
        /\ h[r.id].tag = "tr"
        /\ \E j \in 1..Len(h[r.id].children) :
              /\ IsCell(h, h[r.id].children[j])
              /\ CellText(h, h[r.id].children[j]) # <<>>}

\* The lines of a table block, its final blank line left out.
BlockLines(out) == split(SubSeq(out, 1, Len(out) - 2))

\* Whether some kept cell of t has text running over several lines.
MultiLineCell(h, t) ==
    \E r \in 1..Len(KeptRows(h, t)) : \E c \in 1..Len(KeptRows(h, t)[r]) :
        "\n" \in {KeptRows(h, t)[r][c][k] : k \in 1..Len(KeptRows(h, t)[r][c])}

\* The output of table t has one line per row with text, and the separator.
OneLinePerRow(h, t) ==
    LET out == extract_text(h, ElemChild(t), default_ignored_tags)
        n == Cardinality(RowsWithText(h, t))
    IN  IF n = 0 THEN out = <<>>
        ELSE /\ Len(out) >= 2
             /\ SubSeq(out, Len(out) - 1, Len(out)) = <<"\n", "\n">>
             /\ Len(BlockLines(out)) = n + 1

\* C12: for every well-formed table Element the produced block has, the
\* separator aside, as many lines as the table has tr children with a
\* th/td of non-empty text: each such tr is exactly one output line,
\* whatever its cells contain.
C12_OneLinePerRow ==
    \A t \in ElementsTagged(heap, "table") :
        WellFormedTable(heap, t) => OneLinePerRow(heap, t)

\* The same for the tables none of whose cells has text of several lines.
C12_OneLinePerSimpleRow ==
    \A t \in ElementsTagged(heap, "table") :
        (WellFormedTable(heap, t) /\ ~MultiLineCell(heap, t)) => OneLinePerRow(heap, t)

\* A well-formed table of two rows with text and no cell of several lines.
C12_WitnessSimpleRows ==
    \E t \in ElementsTagged(heap, "table") :
        /\ WellFormedTable(heap, t)
        /\ ~MultiLineCell(heap, t)
        /\ Cardinality(RowsWithText(heap, t)) = 2

\* ------------------------------------------------------------------ C13
\* out is empty, or one or more lines none of which is blank, joined by
\* single newlines and followed by exactly one newline.
NonBlankLinesEnded(out) ==
    \/ out = <<>>
    \/ /\ Last(out) = "\n"
       /\ LET lines == split(SubSeq(out, 1, Len(out) - 1))
          IN  \A i \in 1..Len(lines) : ~Blank(lines[i])

\* Nothing was fed but text that is empty or whitespace only.
OnlyWhitespaceFed(toks) ==
    \A i \in 1..Len(toks) : toks[i].type = "data" /\ Blank(toks[i].data)

C13_WitnessWhitespace ==
    /\ Len(tokens) >= 2
    /\ OnlyWhitespaceFed(tokens)

\* A table converted at top level.
C13_WitnessTable ==
    /\ ElementsTagged(heap, "table") # {}
    /\ ~grok_html_to_text(heap).raised
    /\ Substring(<<"|", " ", "-", "-", "-", " ", "|", "\n">>, grok_html_to_text(heap).text)

\* ------------------------------------------------------------------ C14
\* The non-blank lines of a text leaf.
LeafLines(h, pi) ==
    {split(LeafText(h, pi))[k] : k \in 1..Len(split(LeafText(h, pi)))}
        \ {l \in {split(LeafText(h, pi))[k] : k \in 1..Len(split(LeafText(h, pi)))} :
              Blank(l)}

\* a occurs in line at position i.
OccursAt(a, line, i) ==
    i + Len(a) - 1 <= Len(line) /\ SubSeq(line, i, i + Len(a) - 1) = a

\* line holds a and b side by side: two occurrences that do not overlap.
OnSameLine(a, b, line) ==
    \E i, j \in 1..Len(line) :
        /\ OccursAt(a, line, i)
        /\ OccursAt(b, line, j)
        /\ i + Len(a) <= j \/ j + Len(b) <= i

\* No line of out holds text of two leaves that are children of different
\* Elements (leaves under an ignored tag or a table aside).
LeavesOnSeparateLines(h, out) ==
    \A pi, pj \in Leaves(h) :
        (pi[1] # pj[1] /\ ~Hidden(h, pi) /\ ~Hidden(h, pj)) =>
            \A a \in LeafLines(h, pi) : \A b \in LeafLines(h, pj) :
                \A k \in 1..Len(split(out)) : ~OnSameLine(a, b, split(out)[k])

\* C14: in what html_to_text of html2md.py and of grok_html2md.py return,
\* two text leaves that are children of different Elements are never on
\* the same output line.
C14_SeparateLines ==
    /\ LeavesOnSeparateLines(heap, html2md_html_to_text(heap))
    /\ ~grok_html_to_text(heap).raised =>
          LeavesOnSeparateLines(heap, grok_html_to_text(heap).text)

\* The same for the trees without an Element whose content is returned
\* without the trailing blank line (div, ul, ol, html, body, head).
C14_SeparateUnlessUnsuffixed ==
    (\A e \in Elements \ {root} : heap[e].tag \notin html2md_unsuffixed_tags) =>
        C14_SeparateLines

\* Two paragraphs side by side, each with text, converted by both.
C14_WitnessParagraphs ==
    /\ \E e1, e2 \in ElementsTagged(heap, "p") :
          /\ e1 # e2
          /\ heap[e1].parent = root /\ heap[e2].parent = root
          /\ \E i \in 1..Len(heap[e1].children) : heap[e1].children[i].kind = "text"
          /\ \E i \in 1..Len(heap[e2].children) : heap[e2].children[i].kind = "text"
    /\ ~grok_html_to_text(heap).raised

\* ------------------------------------------------------------------ C15
\* Every text leaf is a non-empty string that neither starts nor ends with
\* whitespace.
C15_LeafState ==
    \A pi \in Leaves(heap) :
        /\ LeafText(heap, pi) # <<>>
        /\ Head(LeafText(heap, pi)) \notin Whitespace
        /\ Last(LeafText(heap, pi)) \notin Whitespace

\* What a step that feeds a Text token changes.
C15_TextStep ==
    \A t \in {a \in DataTokens : a.type = "data"} :
        tokens' = Append(tokens, t) =>
            /\ current' = current
            /\ tag_stack' = tag_stack
            /\ IF Blank(t.data) THEN heap' = heap
               ELSE /\ Len(heap') = Len(heap)
                    /\ \A e \in Elements \ {current} : heap'[e] = heap[e]
                    /\ heap'[current].tag = heap[current].tag
                    /\ heap'[current].attrs = heap[current].attrs
                    /\ heap'[current].parent = heap[current].parent
                    /\ Len(heap'[current].children) = Len(heap[current].children) + 1
                    /\ SubSeq(heap'[current].children, 1, Len(heap[current].children))
                         = heap[current].children
                    /\ Last(heap'[current].children).kind = "text"

\* C15: in every state every text leaf is a non-empty string without
\* leading or trailing whitespace; a step that feeds a Text token that is
\* empty or whitespace only leaves the tree, `current` and the stack as
\* they were, and a step that feeds any other Text token appends exactly one
\* leaf, as the last child of `current`, and does not move `current`.
C15_TextLeaves == [](C15_LeafState) /\ [][C15_TextStep]_vars

\* Inside an open element: whitespace-only text, then padded text that
\* became the leaf 'y', then empty text.
C15_Witness ==
    /\ Len(tokens) = 4
    /\ tokens[1] = StartTag("div", NoAttrs)
    /\ tokens[2] = Text(<<" ", "\n">>)
    /\ tokens[3] = Text(<<" ", "y", "\n">>)
    /\ tokens[4] = Text(<<>>)
    /\ heap[2].children = <<TextChild(<<"y">>)>>
    /\ current = 2

\* ------------------------------------------------------------------ C16
\* The open Elements: those from e up to, but excluding, the root.
OpenElements(h, e) == AncestorsOrSelf(h, e) \ {root}

\* The innermost open Element with the given tag.
InnermostOpen(h, e, tag) ==
    CHOOSE m \in OpenElements(h, e) :
        /\ h[m].tag = tag
        /\ \A o \in OpenElements(h, e) : h[o].tag = tag => Depth(h, o) <= Depth(h, m)

\* What a step that feeds a matched EndTag changes.
C16_MatchedEndTagStep ==
    \A name \in {a.tag : a \in {b \in BuilderTokens : b.type = "end"}} \ SpecVoidTags :
        (/\ tokens' = Append(tokens, EndTag(name))
         /\ \E o \in OpenElements(heap, current) : heap[o].tag = name) =>
            LET m == InnermostOpen(heap, current, name)
                ascended == Depth(heap, current) - Depth(heap, m) + 1
            IN  /\ ~raised'
                /\ heap' = heap
                /\ current' = heap[m].parent
                /\ tag_stack' = SubSeq(tag_stack, 1, Len(tag_stack) - ascended)
                /\ OpenElements(heap, current')
                     = OpenElements(heap, current) \ {o \in Elements : Depth(heap, o) >= Depth(heap, m)}

\* C16: a step that feeds EndTag(name), name not void and carried by at
\* least one open Element, leaves `current` at the parent of the innermost
\* open Element with that tag: that Element and everything opened inside it
\* are closed, the stack loses exactly one entry per level ascended, and
\* the open Elements above it, same tag or not, stay open; the tree itself
\* is untouched.
C16_MatchedEndTag == [][C16_MatchedEndTagStep]_vars

\* <div><div><p> then </div>: the inner div and the p inside it are
\* closed, the outer div stays open.
C16_Witness ==
    /\ tokens = <<StartTag("div", NoAttrs), StartTag("div", NoAttrs),
                  StartTag("p", NoAttrs), EndTag("div")>>
    /\ current = 2
    /\ tag_stack = <<"div">>

\* ------------------------------------------------------------------ C17
\* Elements whose children extract_text joins: not ignored, not a table,
\* not hr.
GenericElements(h) ==
    {e \in 1..Len(h) : h[e].tag \notin default_ignored_tags \cup {"table", "hr"}}

\* The children of e whose extracted text is non-empty.
SpeakingChildren(h, e) ==
    SelectSeq(h[e].children,
              LAMBDA c : extract_text(h, c, default_ignored_tags) # <<>>)

\* s is the parts in order, each followed by at least one newline and
\* nothing but newlines before the next one.
RECURSIVE NewlineSeparated(_, _)
NewlineSeparated(s, parts) ==
    IF parts = <<>> THEN s = <<>>
    ELSE /\ IsPrefix(Head(parts), s)
         /\ LET rest == SubSeq(s, Len(Head(parts)) + 1, Len(s))
            IN  IF Len(parts) = 1 THEN rest = <<>>
                ELSE /\ rest # <<>>
                     /\ Head(rest) = "\n"
                     /\ NewlineSeparated(lstrip(rest, {"\n"}), Tail(parts))

\* The joined content of e holds the trimmed texts of its speaking
\* children in order, each two consecutive ones with a newline between.
ChildrenSeparated(h, e) ==
    LET kids == SpeakingChildren(h, e)
    IN  NewlineSeparated(joined_content(h, e, default_ignored_tags),
                         [k \in 1..Len(kids) |->
                             strip(extract_text(h, kids[k], default_ignored_tags))])

\* Some Element child of e with text is directly followed, among the
\* speaking children, by a text leaf.
ElementThenLeaf(h, e) ==
    \E k \in 1..(Len(SpeakingChildren(h, e)) - 1) :
        /\ SpeakingChildren(h, e)[k].kind = "elem"
        /\ SpeakingChildren(h, e)[k + 1].kind = "text"

\* C17: in the joined content of every generic Element the texts of any
\* two consecutive children with non-empty text, leaf or Element in either
\* order, have at least one newline between them.
C17_ChildrenSeparated ==
    \A e \in GenericElements(heap) : ChildrenSeparated(heap, e)

\* The same for the Elements where no Element child is directly followed
\* by a text leaf.
C17_SeparatedUnlessElementThenLeaf ==
    \A e \in GenericElements(heap) :
        ~ElementThenLeaf(heap, e) => ChildrenSeparated(heap, e)

\* An Element with two Element children side by side, both with text.
C17_WitnessSeparated ==
    \E e \in GenericElements(heap) :
        /\ Len(SpeakingChildren(heap, e)) = 2
        /\ SpeakingChildren(heap, e)[1].kind = "elem"
        /\ SpeakingChildren(heap, e)[2].kind = "elem"

\* ------------------------------------------------------------------ C18
\* The tags on the path from the root (excluded) down to e (included).
RECURSIVE PathTags(_, _)
PathTags(h, e) ==
    IF h[e].parent = None THEN <<>> ELSE Append(PathTags(h, h[e].parent), h[e].tag)

\* C18: in every state the open-tag stack is the sequence of the tags of
\* the Elements on the path from the root (excluded) down to `current`
\* (included): it is as long as `current` is deep, its top is the tag of
\* `current` when it is non-empty, and it is empty exactly when `current` is
\* the root, which is exactly when `current` has no parent.
C18_StackIsPath ==
    /\ tag_stack = PathTags(heap, current)
    /\ Len(tag_stack) = Depth(heap, current)
    /\ tag_stack # <<>> => Last(tag_stack) = heap[current].tag
    /\ tag_stack = <<>> <=> current = root
    /\ current = root <=> heap[current].parent = None

\* After an element was opened and closed and a void tag was seen,
\* `current` is two levels deep under two different tags.
C18_Witness ==
    /\ Len(tokens) = 5
    /\ tokens[2].type = "end"
    /\ Len(heap) = 5
    /\ \E e \in Elements : heap[e].tag = "br"
    /\ tag_stack = <<"p", "div">>
    /\ current = 5

\* ------------------------------------------------------------------ C19
\* What a step that feeds an EndTag no open Element carries leads to.
C19_UnmatchedEndTagStep ==
    \A name \in {a.tag : a \in {b \in BuilderTokens : b.type = "end"}} \ SpecVoidTags :
        (/\ tokens' = Append(tokens, EndTag(name))
         /\ \A o \in OpenElements(heap, current) : heap[o].tag # name) =>
            /\ ~raised'
            /\ heap' = heap
            /\ current' = root
            /\ tag_stack' = <<>>

\* What a step that feeds a StartTag or a non-blank Text does while
\* `current` is the root: the new node becomes the last child of the root.
C19_AttachedUnderRootStep ==
    \A t \in {a \in BuilderTokens : a.type = "start" \/ (a.type = "data" /\ ~Blank(a.data))} :
        (tokens' = Append(tokens, t) /\ current = root) =>
            /\ Len(heap'[root].children) = Len(heap[root].children) + 1
            /\ SubSeq(heap'[root].children, 1, Len(heap[root].children))
                 = heap[root].children
            /\ IF t.type = "data"
               THEN Last(heap'[root].children).kind = "text" /\ current' = root
               ELSE /\ Last(heap'[root].children) = ElemChild(Len(heap'))
                    /\ heap'[Len(heap')].parent = root
                    /\ heap'[Len(heap')].tag = t.tag

\* C19: a step that feeds EndTag(name), name not void and carried by no
\* open Element, leaves `current` at the root and the stack empty, however
\* deep `current` was: every open Element is closed; and from then on, as
\* long as `current` is the root, every Text and StartTag fed is attached
\* as the last child of the root.
C19_UnmatchedClosesAll == [][C19_UnmatchedEndTagStep /\ C19_AttachedUnderRootStep]_vars

\* </span> arrived two levels deep, then text: the text is the second
\* child of the root.
C19_Witness ==
    /\ Len(tokens) = 4
    /\ tokens[1].type = "start" /\ tokens[2].type = "start"
    /\ heap[3].parent = 2
    /\ tokens[3] = EndTag("span")
    /\ tokens[4] = Text(<<"x">>)
    /\ heap[root].children = <<ElemChild(2), TextChild(<<"x">>)>>
    /\ current = root

\* ------------------------------------------------------------------ C20
\* The scan of a token sequence for balance of its non-void tags: `open`
\* are the non-void start tags not yet closed; a non-void end tag must
\* close the innermost of them; text and void tags, start or end, are
\* passed over.
RECURSIVE BalanceScan(_, _, _)
BalanceScan(toks, i, open) ==
    IF i > Len(toks) THEN [ok |-> TRUE, open |-> open]
    ELSE LET t == toks[i] IN
         IF t.type = "data" \/ t.tag \in SpecVoidTags
         THEN BalanceScan(toks, i + 1, open)
         ELSE IF t.type = "start"
         THEN BalanceScan(toks, i + 1, Append(open, t.tag))
         ELSE IF open # <<>> /\ Last(open) = t.tag
         THEN BalanceScan(toks, i + 1, SubSeq(open, 1, Len(open) - 1))
         ELSE [ok |-> FALSE, open |-> open]

\* toks begins a sequence whose non-void tags are properly balanced.
BalancedPrefix(toks) == BalanceScan(toks, 1, <<>>).ok

NotYetClosed(toks) == BalanceScan(toks, 1, <<>>).open

\* C20: at every prefix of a token sequence whose non-void tags are
\* properly balanced, `current` is as deep as there are non-void start
\* tags not yet closed (and the stack holds exactly these); when the
\* sequence is complete, none left to close, `current` is the root again
\* and the stack is empty.
C20_BalancedReturnsToRoot ==
    BalancedPrefix(tokens) =>
        /\ ~raised
        /\ Depth(heap, current) = Len(NotYetClosed(tokens))
        /\ tag_stack = NotYetClosed(tokens)
        /\ NotYetClosed(tokens) = <<>> => (current = root /\ tag_stack = <<>>)

\* <div><br><p></p></div>: two levels were opened around a void tag and
\* closed in order.
C20_Witness ==
    /\ tokens = <<StartTag("div", NoAttrs), StartTag("br", NoAttrs),
                  StartTag("p", NoAttrs), EndTag("p"), EndTag("div")>>
    /\ current = root
    /\ tag_stack = <<>>

\* A prefix with two start tags not yet closed, after a void end tag on
\* its own.
C20_WitnessPrefix ==
    /\ BalancedPrefix(tokens)
    /\ Len(NotYetClosed(tokens)) = 2
    /\ \E i \in 1..Len(tokens) : tokens[i] = EndTag("br")
    /\ \E i \in 1..Len(tokens) : tokens[i].type = "data"

\* ------------------------------------------------------------------ C21
\* The two files give the same result for the tree h: html_to_text of
\* grok_html2md.py returns, and returns the string html_to_text of
\* html2md.py returns.
SameConversion(h) == grok_html_to_text(h) = Returned(html2md_html_to_text(h))

\* The two extractors give the same string for every Element of h.
SameExtraction(h) ==
    \A e \in 1..Len(h) :
        grok_extract_text(h, ElemChild(e), default_ignored_tags)
            = html2md_extract_text(h, ElemChild(e), default_ignored_tags)

\* C21: html2md.py and grok_html2md.py are equivalent on the core path:
\* fed the same tokens their builders hold the same tree, `current` and
\* stack (the handlers of the two classes are the same code, one builder
\* state stands for both), and for every tree so built their html_to_text
\* return the identical string.
C21_SameOutput == SameExtraction(heap) /\ SameConversion(heap)

\* The same for the trees whose root has no text child.
C21_SameOutputUnlessRootText ==
    ~grok_get_tree_raises(heap) => (SameExtraction(heap) /\ SameConversion(heap))

\* Both return the same three lines for text inside two elements.
C21_WitnessSame ==
    /\ ~grok_get_tree_raises(heap)
    /\ html2md_html_to_text(heap) = <<"a", "\n", "b", "\n", "x", "\n">>
    /\ Len(heap) >= 3

====
